---- MODULE Spec2Model ----
(***************************************************************************)
(* Model of the PerfectPitch background pipeline (app/services/tasks.py),  *)
(* its job registry, the 2-worker executor, the speech-quality analyzer's  *)
(* failure handling (app/services/speech_quality.py), the status endpoint  *)
(* (app/routers/status.py) and the functions of stage judge: transcript    *)
(* slicing and slide judging (app/services/judge.py), scores and weak      *)
(* slides (tasks.py lines 156-184).                                        *)
(***************************************************************************)
EXTENDS Integers, Sequences, FiniteSets, TLC

\* ---------------------------------------------------------------- bounds
MaxTasks == 2
Tasks == 1..MaxTasks
\* Jobs submitted while a client polls their status
MaxPolled == 1
PolledTasks == 1..MaxPolled
\* the jobs submitted to the pool when more jobs than workers are submitted
MaxQueued == 3
PoolTasks == 1..MaxQueued
AllTasks == Tasks \cup PolledTasks \cup PoolTasks
Sessions == {"s1", "s2", "s3"}
\* the session a job is submitted for when every job has a session of its own
OwnSession(t) == IF t = 1 THEN "s1" ELSE IF t = 2 THEN "s2" ELSE "s3"
\* Words of a transcript, slides of data.json, slides of a deck, per-slide results
MaxWords == 4
MaxSlides == 3
MaxDeck == 4
MaxResults == 3

\* ThreadPoolExecutor(max_workers=2)
max_workers == 2
\* variant: the pool has one thread more
MoreWorkers == 1..(max_workers + 1)
Workers == 1..max_workers

None == "None"
NoTask == 0

\* Texts of the exceptions raised by the external collaborators
ErrTexts == {"boom"}

\* Listings of the upload folder that a run can find when it looks
FolderChoices ==
  { {"meta.json"},
    {"meta.json", "audio.webm"},
    {"meta.json", "pptx.pptx"},
    {"meta.json", "pptx.pptx", "presentation.pptx", "audio.webm", "audio.wav"},
    {"meta.json", "pptx.pptx", "audio.wav", "audio.mp3", "word.docx"} }

\* ------------------------------------------------------------- variables
VARIABLES
  tasks,            \* _tasks: dict task_id -> TaskInfo
  lock,             \* _tasks_lock: the pipeline holding it, or NoTask
  queue,            \* work queue of _executor
  worker,           \* worker thread -> the job it is running, or NoTask
  sp,               \* position of start_process for each task_id
  sess,             \* session_id argument of each job
  pc,               \* position of _pipeline for each job
  k,                \* number of kwargs already applied by the running _set
  ppt_path,         \* local ppt_path of the run
  audio_path,       \* local audio_path of the run
  exc,              \* text of the exception caught at line 221
  speech_quality,   \* local speech_quality of the run
  report,           \* report.json as written by the run
  calls,            \* collaborators the running _pipeline has called so far
  wrote,            \* artifact files the run has written (status.json aside)
  image_paths,      \* local image_paths of the run
  image_map,        \* local image_map of the run, passed to the slide judge
  status_json,      \* content of status.json in each session's artifact folder
  files,            \* the other artifact files of each session's folder: the run
                    \* whose output each holds
  stages,           \* stage values the job has taken, in order
  ffmpeg_installed, \* whether the ffmpeg binary exists on this host
  committed,        \* job fields as they stood after each completed update
  ran_by,           \* the worker thread that runs (ran) each job
  rd_pc,            \* position of the get_status handler
  rd_task,          \* its task_id argument
  rd_info,          \* its local info (a reference to a TaskInfo)
  rd_resp,          \* the response it is building
  call,             \* the function of stage judge applied last, with its arguments
  result            \* what that call returned or raised

vars == << tasks, lock, queue, worker, sp, sess, pc, k, ppt_path, audio_path,
           exc, speech_quality, report, calls, wrote, files, image_paths, image_map,
           status_json, stages, ffmpeg_installed, committed, ran_by,
           rd_pc, rd_task, rd_info, rd_resp, call, result >>

pipeline_vars == << tasks, lock, queue, worker, sp, sess, pc, k, ppt_path, audio_path,
                    exc, speech_quality, report, calls, wrote, files, image_paths, image_map,
                    status_json, stages, ffmpeg_installed, committed, ran_by,
                    rd_pc, rd_task, rd_info, rd_resp >>
written == << wrote, files >>
job_locals == << ppt_path, audio_path, exc, speech_quality, report, calls, written,
                 image_paths, image_map >>
fn_vars == << call, result >>
reader_vars == << rd_pc, rd_task, rd_info, rd_resp >>
pool_vars == << queue, worker, ran_by >>

\* ------------------------------------------------------------- TaskInfo
\* variant: a job is created with an error code
TaskInfoWithError ==
  [ state |-> "PENDING", stage |-> None, progress_pct |-> 0,
    error_code |-> "PIPELINE_ERROR", error_message |-> None, session_id |-> None ]
TaskInfo ==
  [ state |-> "PENDING", stage |-> None, progress_pct |-> 0,
    error_code |-> None, error_message |-> None, session_id |-> None ]

\* The tuple the status endpoint reports
StatusTuple(info) ==
  << info.state, info.stage, info.progress_pct, info.error_code, info.error_message >>

\* for k, v in kwargs.items(): setattr(info, k, v)   (the first n of them)
RECURSIVE setattrs(_, _, _)
setattrs(info, kwargs, n) ==
  IF n = 0 THEN info
  ELSE [ setattrs(info, kwargs, n - 1) EXCEPT ![kwargs[n][1]] = kwargs[n][2] ]

\* setattr(info, k, v)
\* variant: the assignment also clears session_id
setattr_clears(info, kv) == [ info EXCEPT ![kv[1]] = kv[2], !.session_id = None ]
setattr(info, kv) == [ info EXCEPT ![kv[1]] = kv[2] ]

\* _tasks.get(task_id) is not None
Known(reg, task_id) == task_id \in DOMAIN reg

\* _tasks[task_id] = info
\* variant: the registry keeps only the job that is stored
StoreAlone(reg, task_id, info) == [ u \in {task_id} |-> info ]
NoStore(reg, task_id, info) ==
  IF Known(reg, task_id) THEN [ reg EXCEPT ![task_id] = info ] ELSE reg
Store(reg, task_id, info) ==
  [ u \in DOMAIN reg \cup {task_id} |-> IF u = task_id THEN info ELSE reg[u] ]

\* ------------------------------------------------- file discovery helpers
PresentationNames == << "pptx.pptm", "pptx.pptx", "presentation.pptx" >>
AudioNames == << "audio.webm", "video.mp4", "audio.wav", "audio.m4a", "audio.mp3" >>

RECURSIVE FirstExisting(_, _, _)
FirstExisting(names, folder, i) ==
  IF i > Len(names) THEN None
  ELSE IF names[i] \in folder THEN names[i]
  ELSE FirstExisting(names, folder, i + 1)

_find_presentation(folder) == FirstExisting(PresentationNames, folder, 1)
_find_audio(folder) == FirstExisting(AudioNames, folder, 1)

Suffix(name) ==
  CASE name = "audio.webm" -> ".webm"
    [] name = "video.mp4"  -> ".mp4"
    [] name = "audio.wav"  -> ".wav"
    [] name = "audio.m4a"  -> ".m4a"
    [] name = "audio.mp3"  -> ".mp3"
    [] OTHER -> ""

\* ------------------------------------------------------- speech_quality.py
\* subprocess.run(["ffmpeg", "-version"]) raises when the binary is missing
AlwaysAvailable(installed) == TRUE
_ffmpeg_available(installed) == installed

\* _to_wav: a .wav input is returned as is; anything else needs ffmpeg.
\* converts: whether the ffmpeg conversion (check=True) succeeds.
_to_wav(input_path, installed, converts) ==
  IF Suffix(input_path) = ".wav" THEN [ ok |-> TRUE, value |-> input_path ]
  ELSE IF ~ _ffmpeg_available(installed)
    THEN [ ok |-> FALSE,
           value |-> "ffmpeg not found; install to enable speech quality metrics" ]
  ELSE IF ~ converts THEN [ ok |-> FALSE, value |-> "ffmpeg returned non-zero exit status" ]
  ELSE [ ok |-> TRUE, value |-> "tmp.wav" ]

\* What the locals speech_quality and report hold before they are assigned
NoResult == [ available |-> FALSE, note |-> "unset" ]
NoReport == [ uuid |-> None, speech_quality |-> NoResult ]

\* A file that does not exist; a file holds one JSON document
NoFile == << >>

\* Path.write_text(data): the data replaces whatever the file held
\* variant: a file that exists is left as it is
write_text_once(file, data) == IF file = NoFile THEN << data >> ELSE file
write_text(file, data) == << data >>

\* _write_json(path, obj): the document replaces the file's content; a write
\* that fails leaves the file as it was
_write_json(file, obj, succeeds) == IF succeeds THEN write_text(file, obj) ELSE file

\* The artifact files of a session folder other than status.json
FileNames ==
  { "slides.json", "slide-001.png", "transcript.txt", "report.json", "feedback.md",
    "questions.json" }

\* What the local image_map holds before line 143 assigns it (image_paths is
\* the empty list from line 107 on, and is held empty before that as well)
NoImageMap == [ is_none |-> TRUE, assigned |-> FALSE ]

\* No function of stage judge has been applied yet
NoCall == [ fn |-> None ]

\* ------------------------------------------------------------------- Init
Init ==
  /\ tasks = << >>
  /\ lock = NoTask
  /\ queue = << >>
  /\ worker = [ w \in Workers |-> NoTask ]
  /\ sp = [ t \in AllTasks |-> "free" ]
  /\ sess = [ t \in AllTasks |-> None ]
  /\ pc = [ t \in AllTasks |-> "none" ]
  /\ k = [ t \in AllTasks |-> 0 ]
  /\ ppt_path = [ t \in AllTasks |-> "unset" ]
  /\ audio_path = [ t \in AllTasks |-> "unset" ]
  /\ exc = [ t \in AllTasks |-> None ]
  /\ speech_quality = [ t \in AllTasks |-> NoResult ]
  /\ report = [ t \in AllTasks |-> NoReport ]
  /\ calls = [ t \in AllTasks |-> {} ]
  /\ wrote = [ t \in AllTasks |-> {} ]
  /\ image_paths = [ t \in AllTasks |-> << >> ]
  /\ image_map = [ t \in AllTasks |-> NoImageMap ]
  /\ status_json = [ s \in Sessions |-> NoFile ]
  /\ files = [ s \in Sessions |-> [ n \in FileNames |-> NoFile ] ]
  /\ stages = [ t \in AllTasks |-> << >> ]
  /\ ffmpeg_installed \in BOOLEAN
  /\ committed = [ t \in AllTasks |-> {} ]
  /\ ran_by = [ t \in AllTasks |-> NoTask ]
  /\ rd_pc = "idle"
  /\ rd_task = NoTask
  /\ rd_info = NoTask
  /\ rd_resp = << >>
  /\ call = NoCall
  /\ result = NoCall

\* ---------------------------------------------------------- start_process
\* task_id = uuid.uuid4().hex : a fresh identifier (the lowest unused one)
start_process_uuid(t, session_id) ==
  /\ sp[t] = "free"
  /\ t = 1 => session_id = "s1"
  /\ \A u \in AllTasks : u < t => sp[u] # "free"
  /\ sp' = [ sp EXCEPT ![t] = "L229" ]
  /\ sess' = [ sess EXCEPT ![t] = session_id ]
  /\ UNCHANGED << tasks, lock, pool_vars, pc, k, job_locals, stages,
                  ffmpeg_installed, status_json, fn_vars, committed, reader_vars >>

\* _set(task_id, state="PENDING", progress_pct=0): the job is absent, so the
\* fields are set on a fresh TaskInfo that is stored at line 48, under the lock
start_process_set(t) ==
  /\ sp[t] = "L229"
  /\ lock = NoTask
  /\ LET kwargs == << <<"state", "PENDING">>, <<"progress_pct", 0>> >>
         info == IF Known(tasks, t) THEN tasks[t] ELSE TaskInfo
         new == setattrs(info, kwargs, Len(kwargs))
     IN /\ tasks' = Store(tasks, t, new)
        /\ committed' = [ committed EXCEPT ![t] = @ \cup { StatusTuple(new) } ]
  /\ sp' = [ sp EXCEPT ![t] = "L230" ]
  /\ UNCHANGED << lock, pool_vars, sess, pc, k, job_locals, stages,
                  ffmpeg_installed, status_json, fn_vars, reader_vars >>

\* _executor.submit(_pipeline, session_id, task_id)
start_process_submit(t) ==
  /\ sp[t] = "L230"
  /\ queue' = Append(queue, t)
  /\ pc' = [ pc EXCEPT ![t] = "queued" ]
  /\ sp' = [ sp EXCEPT ![t] = "L231" ]
  /\ UNCHANGED << tasks, lock, worker, ran_by, sess, k, job_locals, stages,
                  ffmpeg_installed, status_json, fn_vars, committed, reader_vars >>

\* return task_id
start_process_return(t) ==
  /\ sp[t] = "L231"
  /\ sp' = [ sp EXCEPT ![t] = "returned" ]
  /\ UNCHANGED << tasks, lock, pool_vars, sess, pc, k, job_locals, stages,
                  ffmpeg_installed, status_json, fn_vars, committed, reader_vars >>

\* ------------------------------------------------------------- the executor
\* An idle worker thread takes the oldest queued work item and calls _pipeline
worker_run(w) ==
  /\ worker[w] = NoTask
  /\ \A v \in Workers : v < w => worker[v] # NoTask
  /\ queue # << >>
  /\ worker' = [ worker EXCEPT ![w] = Head(queue) ]
  /\ queue' = Tail(queue)
  /\ ran_by' = [ ran_by EXCEPT ![Head(queue)] = w ]
  /\ pc' = [ pc EXCEPT ![Head(queue)] = "L85" ]
  /\ UNCHANGED << tasks, lock, sp, sess, k, job_locals, stages,
                  ffmpeg_installed, status_json, fn_vars, committed, reader_vars >>

\* ------------------------------------------------------------- _pipeline
Goto(t, l) == pc' = [ pc EXCEPT ![t] = l ]

\* raise: control passes to the handler at line 221 with the exception's text
\* variant: the exception is kept and the run goes on to the last mirror write
RaiseAndGoOn(t, text) ==
  /\ pc' = [ pc EXCEPT ![t] = "L217" ]
  /\ exc' = [ exc EXCEPT ![t] = text ]
Raise(t, text) ==
  /\ pc' = [ pc EXCEPT ![t] = "L222" ]
  /\ exc' = [ exc EXCEPT ![t] = text ]

Called(t, name) == calls' = [ calls EXCEPT ![t] = @ \cup {name} ]
\* the run of job t writes its output to the files called names of its
\* session's folder
WroteAll(t, names) ==
  /\ wrote' = [ wrote EXCEPT ![t] = @ \cup names ]
  /\ files' = [ files EXCEPT ![sess[t]] =
                 [ n \in FileNames |-> IF n \in names THEN write_text(@[n], t) ELSE @[n] ] ]
Wrote(t, name) == WroteAll(t, {name})

\* The _set calls of _pipeline, by line
SetSites == { "L85", "L114", "L126", "L187", "L195", "L215", "L222" }

\* variant: the progress values of speech_quality and assemble are exchanged
KwargsAtExchanged(site, t) ==
  CASE site = "L85" ->
         << <<"state", "RUNNING">>, <<"stage", "parse">>, <<"progress_pct", 5>>,
            <<"session_id", sess[t]>> >>
    [] site = "L114" -> << <<"stage", "asr">>, <<"progress_pct", 30>> >>
    [] site = "L126" -> << <<"stage", "judge">>, <<"progress_pct", 60>> >>
    [] site = "L187" -> << <<"stage", "speech_quality">>, <<"progress_pct", 95>> >>
    [] site = "L195" -> << <<"stage", "assemble">>, <<"progress_pct", 92>> >>
    [] site = "L215" ->
         << <<"state", "DONE">>, <<"stage", "assemble">>, <<"progress_pct", 100>> >>
    [] site = "L222" ->
         << <<"state", "FAILED">>, <<"error_code", "PIPELINE_ERROR">>,
            <<"error_message", exc[t]>> >>

KwargsAt(site, t) ==
  CASE site = "L85" ->
         << <<"state", "RUNNING">>, <<"stage", "parse">>, <<"progress_pct", 5>>,
            <<"session_id", sess[t]>> >>
    [] site = "L114" -> << <<"stage", "asr">>, <<"progress_pct", 30>> >>
    [] site = "L126" -> << <<"stage", "judge">>, <<"progress_pct", 60>> >>
    [] site = "L187" -> << <<"stage", "speech_quality">>, <<"progress_pct", 92>> >>
    [] site = "L195" -> << <<"stage", "assemble">>, <<"progress_pct", 95>> >>
    [] site = "L215" ->
         << <<"state", "DONE">>, <<"stage", "assemble">>, <<"progress_pct", 100>> >>
    [] site = "L222" ->
         << <<"state", "FAILED">>, <<"error_code", "PIPELINE_ERROR">>,
            <<"error_message", exc[t]>> >>

\* variant: the run goes from the assemble update straight to the DONE update
AfterSetSkipsAssemble(site) ==
  CASE site = "L85" -> "L88"
    [] site = "L114" -> "L116"
    [] site = "L126" -> "L128"
    [] site = "L187" -> "L189"
    [] site = "L195" -> "L215"
    [] site = "L215" -> "L217"
    [] site = "L222" -> "L223"

\* variant: the run goes from the judge update straight to the speech_quality update
AfterSetSkipsJudge(site) ==
  CASE site = "L85" -> "L88"
    [] site = "L114" -> "L116"
    [] site = "L126" -> "L187"
    [] site = "L187" -> "L189"
    [] site = "L195" -> "L211"
    [] site = "L215" -> "L217"
    [] site = "L222" -> "L223"

AfterSet(site) ==
  CASE site = "L85" -> "L88"
    [] site = "L114" -> "L116"
    [] site = "L126" -> "L128"
    [] site = "L187" -> "L189"
    [] site = "L195" -> "L211"
    [] site = "L215" -> "L217"
    [] site = "L222" -> "L223"

\* _set as called by the run of job t: the lock is taken, the kwargs are set
\* one attribute at a time on the TaskInfo object of the registry (readers
\* that hold a reference see each assignment), and the lock is released.
\* An absent job gets a fresh TaskInfo, which nobody sees before line 48.
_set(t) ==
  /\ pc[t] \in SetSites
  /\ lock = IF k[t] = 0 THEN NoTask ELSE t
  /\ LET kwargs == KwargsAt(pc[t], t)
         known == Known(tasks, t)
         info == IF known THEN tasks[t] ELSE TaskInfo
         n == IF known THEN k[t] + 1 ELSE Len(kwargs)
         new == IF known THEN setattr(info, kwargs[n]) ELSE setattrs(info, kwargs, n)
     IN /\ tasks' = Store(tasks, t, new)
        /\ stages' = IF new.stage # info.stage
                       THEN [ stages EXCEPT ![t] = Append(@, new.stage) ]
                       ELSE stages
        /\ IF n = Len(kwargs)
             THEN /\ lock' = NoTask
                  /\ k' = [ k EXCEPT ![t] = 0 ]
                  /\ Goto(t, AfterSet(pc[t]))
                  /\ committed' = [ committed EXCEPT ![t] = @ \cup { StatusTuple(new) } ]
             ELSE /\ lock' = t
                  /\ k' = [ k EXCEPT ![t] = n ]
                  /\ UNCHANGED << pc, committed >>
  /\ UNCHANGED << pool_vars, sp, sess, job_locals, ffmpeg_installed, status_json, fn_vars, reader_vars >>

frame_step == << tasks, lock, pool_vars, sp, sess, k, stages, ffmpeg_installed,
                 committed, reader_vars, fn_vars >>

\* A sequence of calls that each return or raise, made in order until one
\* raises: the outcomes are "all returned" and "the i-th raised"
Outcomes(callseq) ==
  { [ made |-> { callseq[i] : i \in 1..n }, raised |-> TRUE ] : n \in 1..Len(callseq) }
  \cup { [ made |-> { callseq[i] : i \in 1..Len(callseq) }, raised |-> FALSE ] }

\* Outcomes of a write of status.json: TRUE when it succeeds
WriteOutcomes == BOOLEAN

\* What image_paths holds when the renderer returns, and when it raises
RenderOutcomes == { << "slide-001.png" >>, << >> }

\* lines 88-92: out_dir.mkdir, then the best-effort mirror of the job to
\* status.json: a failed write is swallowed
begin_parse_in(t, writes, errs) ==
  /\ pc[t] = "L88"
  /\ \/ /\ \E succeeds \in writes :
             status_json' = [ status_json EXCEPT ![sess[t]] =
                                _write_json(@, tasks[t], succeeds) ]
        /\ Goto(t, "L94")
        /\ UNCHANGED exc
     \/ /\ \E e \in errs : Raise(t, e)
        /\ UNCHANGED status_json
  /\ UNCHANGED << frame_step, ppt_path, audio_path, speech_quality, report, calls, written,
                  image_paths, image_map >>

begin_parse(t) == begin_parse_in(t, { TRUE }, ErrTexts)

\* variant: a missing presentation is not checked at line 98
parse_deck_unchecked(t) ==
  /\ pc[t] = "L94"
  /\ \/ /\ \E e \in ErrTexts : Raise(t, e)
        /\ Called(t, "_load_json")
        /\ UNCHANGED << ppt_path, written >>
     \/ \E folder \in FolderChoices :
          LET p == _find_presentation(folder) IN
            /\ ppt_path' = [ ppt_path EXCEPT ![t] = p ]
            /\ IF FALSE
                 THEN /\ Raise(t, "Presentation not found")
                      /\ Called(t, "_load_json")
                      /\ UNCHANGED written
                 ELSE /\ calls' = [ calls EXCEPT ![t] =
                                      @ \cup { "_load_json", "parse_pptx_metrics" } ]
                      /\ \/ \E e \in ErrTexts : Raise(t, e) /\ UNCHANGED written
                         \/ /\ Wrote(t, "slides.json")
                            /\ Goto(t, "L109")
                            /\ UNCHANGED exc
  /\ UNCHANGED << frame_step, audio_path, speech_quality, report,
                  image_paths, image_map, status_json >>

\* lines 94-103: data.json and meta.json are loaded, the presentation is
\* located and parsed, slides.json is written
parse_deck_in(t, folders, errs) ==
  /\ pc[t] = "L94"
  /\ \/ /\ \E e \in errs : Raise(t, e)
        /\ Called(t, "_load_json")
        /\ UNCHANGED << ppt_path, written >>
     \/ \E folder \in folders :
          LET p == _find_presentation(folder) IN
            /\ ppt_path' = [ ppt_path EXCEPT ![t] = p ]
            /\ IF p = None
                 THEN /\ Raise(t, "Presentation not found")
                      /\ Called(t, "_load_json")
                      /\ UNCHANGED written
                 ELSE /\ calls' = [ calls EXCEPT ![t] =
                                      @ \cup { "_load_json", "parse_pptx_metrics" } ]
                      /\ \/ \E e \in errs : Raise(t, e) /\ UNCHANGED written
                         \/ /\ Wrote(t, "slides.json")
                            /\ Goto(t, "L109")
                            /\ UNCHANGED exc
  /\ UNCHANGED << frame_step, audio_path, speech_quality, report,
                  image_paths, image_map, status_json >>

parse_deck(t) == parse_deck_in(t, FolderChoices, ErrTexts)

\* lines 106-112: render_pptx_to_images returns the images of the slides, or
\* raises (no soffice, nothing produced), which leaves image_paths empty;
\* either way the run goes on to line 114
AfterRenderRaises(paths) == IF paths = << >> THEN "L222" ELSE "L114"
AfterRender(paths) == "L114"

render_images_in(t, outcomes) ==
  /\ pc[t] = "L109"
  /\ Called(t, "render_pptx_to_images")
  /\ \E paths \in outcomes :
       /\ image_paths' = [ image_paths EXCEPT ![t] = paths ]
       /\ WroteAll(t, { paths[i] : i \in 1..Len(paths) })
       /\ Goto(t, AfterRender(paths))
  /\ UNCHANGED << frame_step, ppt_path, audio_path, exc, speech_quality, report,
                  image_map, status_json >>

render_images(t) == render_images_in(t, { << "slide-001.png" >> })

\* lines 115-118, 127-130, 188-191, 216-219: the best-effort mirror of the job
\* to status.json after an update; a failed write is swallowed
StatusSites == { "L116", "L128", "L189", "L217" }

\* variant: the last mirror write is not guarded and its failure reaches line 221
AfterStatusUnguarded(site) ==
  CASE site = "L116" -> "L119"
    [] site = "L128" -> "L131"
    [] site = "L189" -> "L192"
    [] site = "L217" -> "L222"

AfterStatus(site) ==
  CASE site = "L116" -> "L119"
    [] site = "L128" -> "L131"
    [] site = "L189" -> "L192"
    [] site = "L217" -> "L220"

write_status_in(t, writes) ==
  /\ pc[t] \in StatusSites
  /\ \E succeeds \in writes :
       status_json' = [ status_json EXCEPT ![sess[t]] =
                          _write_json(@, tasks[t], succeeds) ]
  /\ Goto(t, AfterStatus(pc[t]))
  /\ UNCHANGED << frame_step, job_locals >>

write_status(t) == write_status_in(t, { TRUE })

\* variant: a missing audio file is not checked at line 120
transcribe_unchecked(t) ==
  /\ pc[t] = "L119"
  /\ \E folder \in FolderChoices :
       LET p == _find_audio(folder) IN
         /\ audio_path' = [ audio_path EXCEPT ![t] = p ]
         /\ IF FALSE
              THEN /\ Raise(t, "Audio/Video not found")
                   /\ UNCHANGED << calls, written >>
              ELSE /\ Called(t, "transcribe_audio")
                   /\ \/ \E e \in ErrTexts : Raise(t, e) /\ UNCHANGED written
                      \/ /\ Wrote(t, "transcript.txt")
                         /\ Goto(t, "L126")
                         /\ UNCHANGED exc
  /\ UNCHANGED << frame_step, ppt_path, speech_quality, report,
                  image_paths, image_map, status_json >>

\* lines 119-124: the audio is located and transcribed, transcript.txt is written
transcribe_in(t, folders, errs) ==
  /\ pc[t] = "L119"
  /\ \E folder \in folders :
       LET p == _find_audio(folder) IN
         /\ audio_path' = [ audio_path EXCEPT ![t] = p ]
         /\ IF p = None
              THEN /\ Raise(t, "Audio/Video not found")
                   /\ UNCHANGED << calls, written >>
              ELSE /\ Called(t, "transcribe_audio")
                   /\ \/ \E e \in errs : Raise(t, e) /\ UNCHANGED written
                      \/ /\ Wrote(t, "transcript.txt")
                         /\ Goto(t, "L126")
                         /\ UNCHANGED exc
  /\ UNCHANGED << frame_step, ppt_path, speech_quality, report,
                  image_paths, image_map, status_json >>

transcribe(t) == transcribe_in(t, FolderChoices, ErrTexts)

\* lines 131-169: the calls of stage judge, none of them guarded: the slicing,
\* the slide judge and the feedback each return or raise
JudgeCalls ==
  << "slice_transcript_by_datajson", "judge_slides_batched",
     "generate_feedback_and_questions" >>

\* line 143: image_map = {i + 1: p for i, p in enumerate(image_paths)} if
\* image_paths else None
ImageMap(paths) ==
  IF paths # << >>
    THEN [ is_none |-> FALSE, items |-> { << i, paths[i] >> : i \in 1..Len(paths) } ]
    ELSE [ is_none |-> TRUE ]

\* lines 173-174: the first script candidate that exists
ScriptNames == << "word.docx", "word.docm", "script.docx", "script.docm", "word.doc" >>

\* lines 177-182: nothing is called without a script document; with one,
\* parse_word_script is called and, when it returns a text that is not empty,
\* judge_script_vs_speech and then review_script_quality; none is guarded
ScriptCalls == << "judge_script_vs_speech", "review_script_quality" >>

ScriptOutcomes(script_path) ==
  IF script_path = None THEN { [ made |-> {}, raised |-> FALSE ] }
  ELSE { [ made |-> { "parse_word_script" }, raised |-> r ] : r \in BOOLEAN }
       \cup { [ made |-> o.made \cup { "parse_word_script" }, raised |-> o.raised ] :
                o \in Outcomes(ScriptCalls) }

\* The upload folders without a script document
NoScriptFolders == { f \in FolderChoices : FirstExisting(ScriptNames, f, 1) = None }

\* lines 131-184
judge_in(t, folders, errs) ==
  /\ pc[t] = "L131"
  /\ \E o \in Outcomes(JudgeCalls) :
       /\ image_map' = IF "judge_slides_batched" \in o.made
                          THEN [ image_map EXCEPT ![t] = ImageMap(image_paths[t]) ]
                          ELSE image_map
       /\ IF o.raised
            THEN /\ calls' = [ calls EXCEPT ![t] = @ \cup o.made ]
                 /\ \E e \in errs : Raise(t, e)
            ELSE \E folder \in folders :
                   \E so \in ScriptOutcomes(FirstExisting(ScriptNames, folder, 1)) :
                     /\ calls' = [ calls EXCEPT ![t] = @ \cup o.made \cup so.made ]
                     /\ IF so.raised
                          THEN \E e \in errs : Raise(t, e)
                          ELSE Goto(t, "L187") /\ UNCHANGED exc
  /\ UNCHANGED << frame_step, ppt_path, audio_path, speech_quality, report, written,
                  image_paths, status_json >>

judge(t) == judge_in(t, NoScriptFolders, ErrTexts)

\* line 192 with speech_quality.py 85-187: a failure of _to_wav is returned
\* as {available: False, note}; the analysis after it is not guarded
compute_speech_quality_in(t, errs) ==
  /\ pc[t] = "L192"
  /\ Called(t, "compute_speech_quality")
  /\ \E converts \in BOOLEAN :
       LET wav == _to_wav(audio_path[t], ffmpeg_installed, converts) IN
         IF ~ wav.ok
           THEN /\ speech_quality' = [ speech_quality EXCEPT ![t] =
                                         [ available |-> FALSE, note |-> wav.value ] ]
                /\ Goto(t, "L195")
                /\ UNCHANGED exc
           ELSE \/ /\ speech_quality' = [ speech_quality EXCEPT ![t] =
                                            [ available |-> TRUE, note |-> None ] ]
                   /\ Goto(t, "L195")
                   /\ UNCHANGED exc
                \/ /\ \E e \in errs : Raise(t, e)
                   /\ UNCHANGED speech_quality
  /\ UNCHANGED << frame_step, ppt_path, audio_path, report, written,
                  image_paths, image_map, status_json >>

compute_speech_quality(t) == compute_speech_quality_in(t, ErrTexts)

\* lines 196-211: the report is assembled and report.json is written
write_report_in(t, errs) ==
  /\ pc[t] = "L211"
  /\ \/ /\ report' = [ report EXCEPT ![t] =
                         [ uuid |-> sess[t], speech_quality |-> speech_quality[t] ] ]
        /\ Wrote(t, "report.json")
        /\ Goto(t, "L212")
        /\ UNCHANGED exc
     \/ /\ \E e \in errs : Raise(t, e)
        /\ UNCHANGED << report, written >>
  /\ UNCHANGED << frame_step, ppt_path, audio_path, speech_quality, calls,
                  image_paths, image_map, status_json >>

write_report(t) == write_report_in(t, ErrTexts)

\* lines 212 and 213: feedback.md, then questions.json
ArtifactAt(site) == IF site = "L212" THEN "feedback.md" ELSE "questions.json"

write_artifact_in(t, errs) ==
  /\ pc[t] \in { "L212", "L213" }
  /\ \/ /\ Wrote(t, ArtifactAt(pc[t]))
        /\ Goto(t, IF pc[t] = "L212" THEN "L213" ELSE "L215")
        /\ UNCHANGED exc
     \/ /\ \E e \in errs : Raise(t, e)
        /\ UNCHANGED written
  /\ UNCHANGED << frame_step, ppt_path, audio_path, speech_quality, report, calls,
                  image_paths, image_map, status_json >>

write_artifact(t) == write_artifact_in(t, ErrTexts)

\* An external call (parser, renderer, transcriber, model, audio analysis)
\* that never returns: the run stays inside the call
CallSites == { "L94", "L109", "L119", "L131", "L192" }

hang(t) ==
  /\ pc[t] \in CallSites
  /\ Goto(t, "hung")
  /\ UNCHANGED << frame_step, job_locals, status_json >>

\* lines 220 and 223: _pipeline returns: its locals are gone and its worker
\* thread is idle again
KeepWorker(w, t) == w
ReleaseWorker(w, t) == IF w = t THEN NoTask ELSE w

pipeline_return(t) ==
  /\ pc[t] \in { "L220", "L223" }
  /\ Goto(t, "returned")
  /\ worker' = [ w \in Workers |-> ReleaseWorker(worker[w], t) ]
  /\ ppt_path' = [ ppt_path EXCEPT ![t] = "unset" ]
  /\ audio_path' = [ audio_path EXCEPT ![t] = "unset" ]
  /\ exc' = [ exc EXCEPT ![t] = None ]
  /\ speech_quality' = [ speech_quality EXCEPT ![t] = NoResult ]
  /\ calls' = [ calls EXCEPT ![t] = {} ]
  /\ image_paths' = [ image_paths EXCEPT ![t] = << >> ]
  /\ image_map' = [ image_map EXCEPT ![t] = NoImageMap ]
  /\ UNCHANGED << tasks, lock, queue, ran_by, sp, sess, k, report, written, stages,
                  ffmpeg_installed, status_json, fn_vars, committed, reader_vars >>

\* ------------------------------------------------- routers/status.py
\* get_task: under the lock, return the registry's TaskInfo object itself
get_task(reg, task_id) == IF Known(reg, task_id) THEN task_id ELSE NoTask

StatusFields == << "state", "stage", "progress_pct", "error_code", "error_message" >>

\* line 16: info = get_task(task_id)
status_get_task(t) ==
  /\ rd_pc = "idle"
  /\ lock = NoTask
  /\ rd_task' = t
  /\ rd_info' = get_task(tasks, t)
  /\ rd_pc' = IF get_task(tasks, t) = NoTask THEN "L25" ELSE "L27"
  /\ UNCHANGED << tasks, lock, pool_vars, sp, sess, pc, k, job_locals, stages,
                  ffmpeg_installed, status_json, fn_vars, committed, rd_resp >>

\* lines 27-31: the response reads info.state, info.stage, info.progress_pct,
\* info.error_code, info.error_message one after the other, without the lock
status_read_field ==
  /\ rd_pc = "L27"
  /\ rd_resp' = Append(rd_resp, tasks[rd_info][StatusFields[Len(rd_resp) + 1]])
  /\ rd_pc' = IF Len(rd_resp) + 1 = Len(StatusFields) THEN "L32" ELSE "L27"
  /\ UNCHANGED << tasks, lock, pool_vars, sp, sess, pc, k, job_locals, stages,
                  ffmpeg_installed, status_json, fn_vars, committed, rd_task, rd_info >>

\* line 25 (404) or line 32: the handler answers and is ready for the next poll
status_return ==
  /\ rd_pc \in { "L25", "L32" }
  /\ rd_pc' = "idle"
  /\ rd_task' = NoTask
  /\ rd_info' = NoTask
  /\ rd_resp' = << >>
  /\ UNCHANGED << tasks, lock, pool_vars, sp, sess, pc, k, job_locals, stages,
                  ffmpeg_installed, status_json, fn_vars, committed >>

\* ------------------------------------------------- judge.py: the slicing
\* JSON values as data.json and the model replies hold them
JNull == [ kind |-> "null" ]
JInt(n) == [ kind |-> "int", val |-> n ]
JStr(x) == [ kind |-> "str", val |-> x ]

\* int(v) raises for None and for a string that is not a number
IntRaises(v) == v.kind # "int"

Max(a, b) == IF a >= b THEN a ELSE b
Min(a, b) == IF a <= b THEN a ELSE b

\* d[key] = value on a dict
SetItem(d, key, value) ==
  [ x \in DOMAIN d \cup {key} |-> IF x = key THEN value ELSE d[x] ]

\* sum(d.values())
RECURSIVE SumValues(_, _)
SumValues(d, keys) ==
  IF keys = {} THEN 0
  ELSE LET x == CHOOSE x \in keys : TRUE IN d[x] + SumValues(d, keys \ {x})

\* round(num / den) for num >= 0, den > 0: the nearest integer; when the
\* quotient is halfway between two integers the float arithmetic of line 71
\* lands on either of them (up tells which)
round_down(num, den, up) == num \div den
round_(num, den, up) ==
  LET q == num \div den
      r == num % den
  IN IF 2 * r < den THEN q
     ELSE IF 2 * r > den THEN q + 1
     ELSE IF up THEN q + 1 ELSE q

\* lines 42-55: the duration of a slide, -1 when start_ms or end_ms is missing
\* or not a number or when end_ms is not after start_ms
DurationOf(sl) ==
  IF sl.start_ms.kind = "null" \/ sl.end_ms.kind = "null" THEN -1
  ELSE IF IntRaises(sl.end_ms) \/ IntRaises(sl.start_ms) THEN -1
  ELSE IF sl.end_ms.val - sl.start_ms.val <= 0 THEN -1
  ELSE sl.end_ms.val - sl.start_ms.val

\* lines 35-55: durations after the first n slides; a slide whose index is
\* not an integer is skipped
RECURSIVE Durations(_, _)
Durations(slides, n) ==
  IF n = 0 THEN << >>
  ELSE IF IntRaises(slides[n].index) THEN Durations(slides, n - 1)
  ELSE Append(Durations(slides, n - 1), << slides[n].index.val, DurationOf(slides[n]) >>)

\* line 53: total_duration_ms
RECURSIVE TotalDuration(_, _)
TotalDuration(durations, n) ==
  IF n = 0 THEN 0
  ELSE TotalDuration(durations, n - 1) + Max(0, durations[n][2])

\* lines 61-75: allocations and remaining_words after n turns of the loop
RECURSIVE Proportional(_, _, _, _, _)
Proportional(durations, total_words, total_duration_ms, up, n) ==
  IF n = 0 THEN [ allocations |-> << >>, remaining_words |-> total_words ]
  ELSE LET st == Proportional(durations, total_words, total_duration_ms, up, n - 1)
           idx == durations[n][1]
           dur == durations[n][2]
           w == Max(0, Min(st.remaining_words,
                           round_(total_words * dur, total_duration_ms, up)))
       IN IF dur <= 0
            THEN [ st EXCEPT !.allocations = SetItem(@, idx, 0) ]
          ELSE IF n = Len(durations)
            THEN [ st EXCEPT !.allocations = SetItem(@, idx, st.remaining_words) ]
          ELSE [ allocations |-> SetItem(st.allocations, idx, w),
                 remaining_words |-> st.remaining_words - w ]

\* lines 77-80: words still unallocated go to the last slide
TopUpLast(allocations, durations, total_words) ==
  LET allocated == SumValues(allocations, DOMAIN allocations)
      last_key == durations[Len(durations)][1]
  IN IF allocated < total_words /\ durations # << >>
       THEN SetItem(allocations, last_key,
                    (IF last_key \in DOMAIN allocations THEN allocations[last_key] ELSE 0)
                      + (total_words - allocated))
       ELSE allocations

\* lines 83-87: allocations after n turns of the even split
EvenSplitRemainderLast(durations, total_words, n) ==
  [ i \in { durations[j][1] : j \in 1..n } |->
      IF i = durations[n][1]
        THEN total_words - (n - 1) * (total_words \div Max(1, Len(durations)))
        ELSE total_words \div Max(1, Len(durations)) ]
RECURSIVE EvenSplit(_, _, _)
EvenSplit(durations, total_words, n) ==
  IF n = 0 THEN << >>
  ELSE LET base == total_words \div Max(1, Len(durations))
           rem == total_words % Max(1, Len(durations))
       IN SetItem(EvenSplit(durations, total_words, n - 1), durations[n][1],
                  base + (IF n - 1 < rem THEN 1 ELSE 0))

\* line 97: words[cursor : cursor + take]
SegmentFromStart(words, cursor, take) == SubSeq(words, 1, Min(Len(words), take))
Segment(words, cursor, take) ==
  SubSeq(words, cursor + 1, Min(Len(words), cursor + take))

\* lines 90-99: chunks and cursor after n turns of the loop; a chunk is the
\* sequence of the words that line 98 joins with single spaces
RECURSIVE BuildChunks(_, _, _, _)
BuildChunks(durations, allocations, words, n) ==
  IF n = 0 THEN [ chunks |-> << >>, cursor |-> 0 ]
  ELSE LET st == BuildChunks(durations, allocations, words, n - 1)
           idx == durations[n][1]
           take == Max(0, IF idx \in DOMAIN allocations THEN allocations[idx] ELSE 0)
       IN IF take <= 0
            THEN [ st EXCEPT !.chunks = SetItem(@, idx, << >>) ]
            ELSE [ chunks |-> SetItem(st.chunks, idx, Segment(words, st.cursor, take)),
                   cursor |-> st.cursor + take ]

\* lines 101-104: leftover words are appended to the last slide's chunk
AppendLeftover(st, durations, words) ==
  IF st.cursor < Len(words) /\ durations # << >>
    THEN LET last_idx == durations[Len(durations)][1]
         IN SetItem(st.chunks, last_idx,
                    (IF last_idx \in DOMAIN st.chunks THEN st.chunks[last_idx] ELSE << >>)
                      \o SubSeq(words, st.cursor + 1, Len(words)))
    ELSE st.chunks

\* slice_transcript_by_datajson(full_text, data_json): full_text is given as
\* the sequence of words that re.findall(r"\S+", full_text) returns
slice_transcript_by_datajson(full_text, data_json, up) ==
  LET slides == data_json.slides
      words == full_text
      total_words == Len(words)
      durations == Durations(slides, Len(slides))
      total_duration_ms == TotalDuration(durations, Len(durations))
      allocations ==
        IF total_duration_ms > 0 /\ \E i \in 1..Len(durations) : durations[i][2] >= 0
          THEN TopUpLast(Proportional(durations, total_words, total_duration_ms, up,
                                      Len(durations)).allocations,
                         durations, total_words)
          ELSE EvenSplit(durations, total_words, Len(durations))
  IN IF slides = << >> THEN << >>
     ELSE IF total_words = 0
       THEN [ i \in { slides[j].index.val :
                        j \in { x \in 1..Len(slides) : slides[x].index.kind # "null" } }
                |-> << >> ]
     ELSE AppendLeftover(BuildChunks(durations, allocations, words, Len(durations)),
                         durations, words)

\* --------------------------------------- judge.py: judge_slides_batched
batch_size == 3

\* lines 164-168: json.loads(txt) and parsed.get("per_slide", []) inside the
\* try: a text that is not JSON and a JSON value that is not an object raise
\* there and give []; a missing key gives []; anything else is taken as it is
batch_results_of(reply) ==
  IF reply.kind # "object" THEN [ kind |-> "list", items |-> << >> ]
  ELSE IF reply.per_slide.kind = "missing" THEN [ kind |-> "list", items |-> << >> ]
  ELSE reply.per_slide

\* lines 171-172: for r in batch_results: r["slide_title"] = ... raises a
\* TypeError when batch_results is None or a number, or when an item is not
\* an object (a number in a list, a character of a string)
TitlesRaise(batch_results) ==
  \/ batch_results.kind \in { "null", "number" }
  \/ batch_results.kind = "str" /\ batch_results.val # ""
  \/ /\ batch_results.kind = "list"
     /\ \E i \in 1..Len(batch_results.items) : batch_results.items[i].kind # "object"

\* lines 170-172: the title of the batch's slide with the result's index, or ""
WithTitle(r, batch) ==
  [ index |-> r.index, similarity_0_1 |-> r.similarity_0_1,
    slide_title |->
      IF \E j \in 1..Len(batch) : batch[j].index = r.index
        THEN batch[CHOOSE j \in 1..Len(batch) : batch[j].index = r.index].title
        ELSE "" ]

\* lines 117-175: results after the first b batches; replies[b] is what the
\* model call of batch b does: it raises, or it returns a text
RECURSIVE judge_batches(_, _, _)
judge_batches(slides, replies, b) ==
  IF b = 0 THEN [ raised |-> FALSE, results |-> << >> ]
  ELSE LET prev == judge_batches(slides, replies, b - 1)
           batch == SubSeq(slides, (b - 1) * batch_size + 1,
                           Min(Len(slides), b * batch_size))
           batch_results == batch_results_of(replies[b])
       IN IF prev.raised THEN prev
          ELSE IF replies[b].kind = "raises" THEN [ prev EXCEPT !.raised = TRUE ]
          ELSE IF TitlesRaise(batch_results) THEN [ prev EXCEPT !.raised = TRUE ]
          ELSE IF batch_results.kind # "list" THEN prev
          ELSE [ prev EXCEPT !.results =
                   @ \o [ i \in 1..Len(batch_results.items) |->
                            WithTitle(batch_results.items[i], batch) ] ]

\* range(0, len(slides), batch_size)
NumBatches(slides) == (Len(slides) + batch_size - 1) \div batch_size

judge_slides_batched(slides, replies) ==
  judge_batches(slides, replies, NumBatches(slides))

\* ------------------------------------------- tasks.py lines 156-167, 184
\* lines 156-161: float(r.get("similarity_0_1", 0.0)), 0.0 when it raises;
\* similarities are counted in tenths
RECURSIVE sims(_, _)
sims(per_slide_results, n) ==
  IF n = 0 THEN << >>
  ELSE Append(sims(per_slide_results, n - 1),
              IF per_slide_results[n].similarity_0_1.kind = "num"
                THEN per_slide_results[n].similarity_0_1.val ELSE 0)

RECURSIVE SumSeq(_, _)
SumSeq(q, n) == IF n = 0 THEN 0 ELSE SumSeq(q, n - 1) + q[n]

\* line 162: round(sum(sims) / max(1, len(sims)), 3), in thousandths
similarity_avg_2(per_slide_results, up) ==
  10 * round_(10 * SumSeq(sims(per_slide_results, Len(per_slide_results)),
                          Len(per_slide_results)),
              Max(1, Len(per_slide_results)), up)
similarity_avg(per_slide_results, up) ==
  round_(100 * SumSeq(sims(per_slide_results, Len(per_slide_results)),
                      Len(per_slide_results)),
         Max(1, Len(per_slide_results)), up)

\* line 184: round(similarity_avg * 100.0, 1), in tenths
overall_score(per_slide_results, up) ==
  round_(similarity_avg(per_slide_results, up) * 100 * 10, 1000, up)

\* line 166: r.get("similarity_0_1", 1.0) < 0.5 raises a TypeError when the
\* value is None or a string
SimilarityRaises(per_slide_results) ==
  \E i \in 1..Len(per_slide_results) :
    per_slide_results[i].similarity_0_1.kind \in { "null", "str" }

\* line 166: weak_by_similarity (a result without similarity counts as 1.0)
weak_by_similarity_incl(per_slide_results) ==
  { per_slide_results[i].index :
      i \in { j \in 1..Len(per_slide_results) :
                /\ per_slide_results[j].similarity_0_1.kind = "num"
                /\ per_slide_results[j].similarity_0_1.val <= 5 } }
weak_by_similarity(per_slide_results) ==
  { per_slide_results[i].index :
      i \in { j \in 1..Len(per_slide_results) :
                /\ per_slide_results[j].similarity_0_1.kind = "num"
                /\ per_slide_results[j].similarity_0_1.val < 5 } }

\* sorted(list(S)) for a set of integers
RECURSIVE sorted(_)
sorted(S) ==
  IF S = {} THEN << >>
  ELSE LET m == CHOOSE x \in S : \A y \in S : x <= y
       IN << m >> \o sorted(S \ {m})

ToSet(q) == { q[i] : i \in 1..Len(q) }

\* lines 164-167: weak_slides, or the TypeError of line 166
weak_slides(deck_metrics, per_slide_results) ==
  IF SimilarityRaises(per_slide_results) THEN [ raised |-> TRUE, value |-> << >> ]
  ELSE [ raised |-> FALSE,
         value |-> sorted(ToSet(deck_metrics.text_density.bad_on)
                          \cup ToSet(deck_metrics.small_fonts)
                          \cup weak_by_similarity(per_slide_results)) ]

\* ------------------------------------- the functions of stage judge, applied
\* Transcripts, as the words "1", "2", ... that they consist of
Transcripts == { [ i \in 1..w |-> i ] : w \in 0..MaxWords }

\* start_ms and end_ms of a slide: 10 s, 30 s, zero, missing, not a number,
\* end before start
TimingChoices ==
  { << JInt(0), JInt(10000) >>, << JInt(10000), JInt(40000) >>,
    << JInt(5000), JInt(5000) >>, << JNull, JInt(10000) >>,
    << JStr("abc"), JInt(10000) >>, << JInt(10000), JInt(5000) >> }

SlideChoices ==
  { [ index |-> ix, start_ms |-> tm[1], end_ms |-> tm[2] ] :
      ix \in { JInt(i) : i \in 1..MaxSlides } \cup { JNull }, tm \in TimingChoices }

SlideLists == UNION { [ 1..n -> SlideChoices ] : n \in 0..MaxSlides }

\* The slides of a parsed deck
Decks == { [ i \in 1..n |-> [ index |-> i, title |-> "Slide" ] ] : n \in 0..MaxDeck }

\* What the model call of one batch does
ReplyChoices ==
  { [ kind |-> "raises" ], [ kind |-> "text" ], [ kind |-> "array" ],
    [ kind |-> "object", per_slide |-> [ kind |-> "missing" ] ],
    [ kind |-> "object", per_slide |-> [ kind |-> "null" ] ],
    [ kind |-> "object", per_slide |-> [ kind |-> "number" ] ],
    [ kind |-> "object", per_slide |-> [ kind |-> "str", val |-> "abc" ] ],
    [ kind |-> "object", per_slide |-> [ kind |-> "str", val |-> "" ] ],
    [ kind |-> "object", per_slide |->
        [ kind |-> "list", items |-> << [ kind |-> "number" ] >> ] ],
    [ kind |-> "object", per_slide |->
        [ kind |-> "list",
          items |-> << [ kind |-> "object", index |-> 1,
                         similarity_0_1 |-> [ kind |-> "num", val |-> 3 ] ] >> ] ] }

\* similarity_0_1 of a per-slide result: 0.0, 0.3, 0.5, 1.0, absent, null, a text
SimilarityChoices ==
  { [ kind |-> "num", val |-> v ] : v \in { 0, 3, 5, 10 } }
  \cup { [ kind |-> "missing" ], [ kind |-> "null" ], [ kind |-> "str" ] }

ResultLists ==
  UNION { { [ i \in 1..n |-> [ index |-> i, similarity_0_1 |-> f[i] ] ] :
              f \in [ 1..n -> SimilarityChoices ] } : n \in 0..MaxResults }

DeckMetricsChoices ==
  { [ text_density |-> [ bad_on |-> b ], small_fonts |-> f ] :
      b \in { << >>, << 1 >>, << 2, 1 >> }, f \in { << >>, << 2 >>, << 3 >> } }

\* per_slide_text = slice_transcript_by_datajson(transcript, data)
call_slice_transcript_by_datajson ==
  /\ call = NoCall
  /\ \E full_text \in Transcripts, slides \in SlideLists, up \in BOOLEAN :
       /\ call' = [ fn |-> "slice_transcript_by_datajson", full_text |-> full_text,
                    data_json |-> [ slides |-> slides ], up |-> up ]
       /\ result' = [ chunks |-> slice_transcript_by_datajson(
                                   full_text, [ slides |-> slides ], up) ]
  /\ UNCHANGED pipeline_vars

\* per_slide_results = judge_slides_batched(slides_content, ...)
call_judge_slides_batched ==
  /\ call = NoCall
  /\ \E slides \in Decks :
       \E replies \in [ 1..NumBatches(slides) -> ReplyChoices ] :
         /\ call' = [ fn |-> "judge_slides_batched", slides |-> slides,
                      replies |-> replies ]
         /\ result' = judge_slides_batched(slides, replies)
  /\ UNCHANGED pipeline_vars

\* tasks.py lines 156-167 and 184 on the per-slide results
call_scores ==
  /\ call = NoCall
  /\ \E per_slide_results \in ResultLists, deck_metrics \in DeckMetricsChoices,
        up \in BOOLEAN :
       /\ call' = [ fn |-> "scores", per_slide_results |-> per_slide_results,
                    deck_metrics |-> deck_metrics ]
       /\ result' = [ similarity_avg |-> similarity_avg(per_slide_results, up),
                      overall_score |-> overall_score(per_slide_results, up),
                      weak_slides |-> weak_slides(deck_metrics, per_slide_results) ]
  /\ UNCHANGED pipeline_vars

\* ------------------------------------------------------------ specifications
\* The steps of the jobs T
NextFor(T) ==
  \/ \E t \in T : start_process_uuid(t, OwnSession(t))
  \/ \E t \in T : start_process_set(t)
  \/ \E t \in T : start_process_submit(t)
  \/ \E t \in T : start_process_return(t)
  \/ \E w \in Workers : worker_run(w)
  \/ \E t \in T : _set(t)
  \/ \E t \in T : begin_parse(t)
  \/ \E t \in T : parse_deck(t)
  \/ \E t \in T : render_images(t)
  \/ \E t \in T : write_status(t)
  \/ \E t \in T : transcribe(t)
  \/ \E t \in T : judge(t)
  \/ \E t \in T : compute_speech_quality(t)
  \/ \E t \in T : write_report(t)
  \/ \E t \in T : write_artifact(t)
  \/ \E t \in T : pipeline_return(t)

\* The jobs of Tasks, each submitted for a session of its own
Next == NextFor(Tasks)

Spec == Init /\ [][Next]_vars

\* The jobs of PolledTasks together with a client polling GET /status/{task_id}
NextStatus ==
  \/ NextFor(PolledTasks)
  \/ \E t \in PolledTasks : status_get_task(t)
  \/ status_read_field
  \/ status_return

SpecStatus == Init /\ [][NextStatus]_vars

\* One job with every outcome of its optional steps: the renderer returns or
\* raises, a status.json write succeeds or fails, a script document is
\* uploaded or not
NextRun ==
  \/ NextFor(PolledTasks)
  \/ \E t \in PolledTasks : begin_parse_in(t, WriteOutcomes, ErrTexts)
  \/ \E t \in PolledTasks : render_images_in(t, RenderOutcomes)
  \/ \E t \in PolledTasks : write_status_in(t, WriteOutcomes)
  \/ \E t \in PolledTasks : judge_in(t, FolderChoices, ErrTexts)

SpecRun == Init /\ [][NextRun]_vars

\* The steps of the runs of the jobs T whose uploads are among folders and
\* whose external calls raise the exceptions errs
RunStep(t, folders, errs) ==
  \/ _set(t)
  \/ begin_parse_in(t, { TRUE }, errs)
  \/ parse_deck_in(t, folders, errs)
  \/ render_images(t)
  \/ write_status(t)
  \/ transcribe_in(t, folders, errs)
  \/ judge_in(t, folders, errs)
  \/ compute_speech_quality_in(t, errs)
  \/ write_report_in(t, errs)
  \/ write_artifact_in(t, errs)
  \/ pipeline_return(t)

\* Uploads that are complete, and uploads with or without the mandatory files
CompleteFolders == { {"meta.json", "pptx.pptx", "audio.wav"} }
PoolFolders == { {"meta.json"} } \cup CompleteFolders

\* Two submissions of one session whose external calls all return
NextSame ==
  \/ \E t \in Tasks : start_process_uuid(t, "s1")
  \/ \E t \in Tasks : start_process_set(t)
  \/ \E t \in Tasks : start_process_submit(t)
  \/ \E t \in Tasks : start_process_return(t)
  \/ \E w \in Workers : worker_run(w)
  \/ \E t \in Tasks : RunStep(t, CompleteFolders, {})

SpecSame == Init /\ [][NextSame]_vars

\* More jobs than workers; every external call returns, and each upload has
\* the mandatory files or lacks them
NextPool ==
  \/ \E t \in PoolTasks : start_process_uuid(t, OwnSession(t))
  \/ \E t \in PoolTasks : start_process_set(t)
  \/ \E t \in PoolTasks : start_process_submit(t)
  \/ \E t \in PoolTasks : start_process_return(t)
  \/ \E w \in Workers : worker_run(w)
  \/ \E t \in PoolTasks : RunStep(t, PoolFolders, {})

\* on a host that has ffmpeg
InitPool == Init /\ ffmpeg_installed

SpecPool == InitPool /\ [][NextPool]_vars

\* More jobs than workers under a fair scheduler: a worker thread that is
\* idle while work is queued takes it, and a thread that can take a step of
\* its run takes it. The upload of the first job has the mandatory files or
\* lacks them, the uploads of the jobs behind it lack them.
QueuedFolders(t) == IF t = 1 THEN PoolFolders ELSE { {"meta.json"} }

NextPoolFair ==
  \/ \E t \in PoolTasks : start_process_uuid(t, OwnSession(t))
  \/ \E t \in PoolTasks : start_process_set(t)
  \/ \E t \in PoolTasks : start_process_submit(t)
  \/ \E t \in PoolTasks : start_process_return(t)
  \/ \E w \in Workers : worker_run(w)
  \/ \E t \in PoolTasks : RunStep(t, QueuedFolders(t), {})

SpecPoolFair ==
  /\ InitPool
  /\ [][NextPoolFair]_vars
  /\ WF_vars(\E w \in Workers : worker_run(w))
  /\ \A t \in PoolTasks : WF_vars(RunStep(t, QueuedFolders(t), {}))

\* The same where an external call may also never return
NextHang ==
  \/ NextPool
  \/ \E t \in PoolTasks : hang(t)

SpecHang == InitPool /\ [][NextHang]_vars

\* The functions of stage judge, each applied to arguments of the bounded sets
NextJudge ==
  \/ call_slice_transcript_by_datajson
  \/ call_judge_slides_batched
  \/ call_scores

SpecJudge == Init /\ [][NextJudge]_vars

\* ------------------------------------------------------------ properties
Running(t) == pc[t] \notin { "none", "queued", "returned" }
Ended(t) == pc[t] \in { "L220", "L223" }

IsPrefix(a, b) == Len(a) <= Len(b) /\ \A i \in 1..Len(a) : a[i] = b[i]

\* C1: a job's state only moves PENDING -> RUNNING -> DONE or PENDING ->
\* RUNNING -> FAILED: a job enters the registry PENDING, RUNNING is entered
\* only from PENDING, DONE and FAILED only from RUNNING, and a job that is
\* DONE or FAILED keeps that state and stays in the registry.
StateMoves ==
  { <<"PENDING", "RUNNING">>, <<"RUNNING", "DONE">>, <<"RUNNING", "FAILED">> }

C1_StateMoves ==
  [][ /\ \A t \in DOMAIN tasks :
           /\ t \in DOMAIN tasks'
           /\ \/ tasks'[t].state = tasks[t].state
              \/ << tasks[t].state, tasks'[t].state >> \in StateMoves
      /\ \A t \in DOMAIN tasks' \ DOMAIN tasks : tasks'[t].state = "PENDING" ]_vars

C1_Witness ==
  \E t, u \in DOMAIN tasks :
    /\ tasks[t].state = "DONE" /\ pc[t] = "returned"
    /\ tasks[u].state = "FAILED" /\ pc[u] = "returned"

\* C2: the tuple (state, stage, progress_pct, error_code, error_message) that
\* get_status answers equals the job's fields as they stood after some whole
\* number of completed updates.
C2_Snapshot ==
  rd_pc = "L32" => rd_resp \in committed[rd_info]

\* C3: from the moment _set returns in start_process the job is in the
\* registry and stays there, so a get_task made after start_process returned
\* finds it; as created it is PENDING with progress_pct 0; and it can still be
\* PENDING after the return.
C3_Visible ==
  /\ [] \A t \in Tasks :
          /\ sp[t] \in { "L230", "L231", "returned" } => Known(tasks, t)
          /\ sp[t] = "L230" =>
               /\ tasks[t].state = "PENDING"
               /\ tasks[t].progress_pct = 0
               /\ tasks[t].stage = None
  /\ [][ \A t \in Tasks :
           (rd_pc = "idle" /\ rd_task' = t /\ sp[t] = "returned") => rd_pc' = "L27" ]_vars

C3_Witness ==
  /\ rd_pc = "L32"
  /\ sp[rd_task] = "returned"
  /\ tasks[rd_task].state = "PENDING"
  /\ rd_resp[1] = "PENDING" /\ rd_resp[3] = 0

\* C4: the progress_pct of a job never decreases: it starts at 0 and each
\* change takes it to the next value of 0, 5, 30, 60, 92, 95, 100.
ProgressOrder == << 0, 5, 30, 60, 92, 95, 100 >>

C4_Progress ==
  [][ /\ \A t \in DOMAIN tasks :
           \/ tasks'[t].progress_pct = tasks[t].progress_pct
           \/ \E i \in 1..(Len(ProgressOrder) - 1) :
                /\ tasks[t].progress_pct = ProgressOrder[i]
                /\ tasks'[t].progress_pct = ProgressOrder[i + 1]
      /\ \A t \in DOMAIN tasks' \ DOMAIN tasks : tasks'[t].progress_pct = 0 ]_vars

C4_Witness ==
  \E t, u \in DOMAIN tasks :
    /\ tasks[t].state = "DONE" /\ tasks[t].progress_pct = 100
    /\ tasks[u].state = "FAILED" /\ tasks[u].progress_pct = 60

\* C5: the stage values a job takes are a prefix of parse, asr, judge,
\* speech_quality, assemble, and while the run is in a stage all the work of
\* the stages before it has finished.
StageOrder == << "parse", "asr", "judge", "speech_quality", "assemble" >>

WorkBefore(stage) ==
  CASE stage = "asr" ->
         [ made |-> { "_load_json", "parse_pptx_metrics", "render_pptx_to_images" },
           files |-> { "slides.json" } ]
    [] stage = "judge" ->
         [ made |-> { "_load_json", "parse_pptx_metrics", "render_pptx_to_images",
                      "transcribe_audio" },
           files |-> { "slides.json", "transcript.txt" } ]
    [] stage = "speech_quality" ->
         [ made |-> { "_load_json", "parse_pptx_metrics", "render_pptx_to_images",
                      "transcribe_audio", "slice_transcript_by_datajson",
                      "judge_slides_batched", "generate_feedback_and_questions" },
           files |-> { "slides.json", "transcript.txt" } ]
    [] stage = "assemble" ->
         [ made |-> { "_load_json", "parse_pptx_metrics", "render_pptx_to_images",
                      "transcribe_audio", "slice_transcript_by_datajson",
                      "judge_slides_batched", "generate_feedback_and_questions",
                      "compute_speech_quality" },
           files |-> { "slides.json", "transcript.txt" } ]
    [] OTHER -> [ made |-> {}, files |-> {} ]

C6_NoPresentation ==
  \A t \in Tasks :
    ppt_path[t] = None =>
      /\ pc[t] \in { "L222", "L223" }
      /\ stages[t] = << "parse" >>
      /\ tasks[t].stage = "parse"
      /\ "transcribe_audio" \notin calls[t]
      /\ pc[t] = "L223" =>
           /\ tasks[t].state = "FAILED"
           /\ tasks[t].error_code = "PIPELINE_ERROR"

C6_Witness ==
  \E t \in Tasks : ppt_path[t] = None /\ pc[t] = "L223"

\* C7: a run that finds a presentation but none of the candidate audio/video
\* files ends FAILED with the non-empty error_message "Audio/Video not found",
\* and never writes report.json.
C7_NoAudio ==
  \A t \in Tasks :
    audio_path[t] = None =>
      /\ ppt_path[t] \in { PresentationNames[i] : i \in 1..Len(PresentationNames) }
      /\ pc[t] \in { "L222", "L223" }
      /\ "report.json" \notin wrote[t]
      /\ exc[t] = "Audio/Video not found"
      /\ pc[t] = "L223" =>
           /\ tasks[t].state = "FAILED"
           /\ tasks[t].error_message = "Audio/Video not found"
           /\ tasks[t].error_message # ""

C7_Witness ==
  \E t \in Tasks : audio_path[t] = None /\ pc[t] = "L223"

\* C8: an exception raised in any stage is caught by the run: the run ends
\* FAILED with error_code PIPELINE_ERROR and the exception's text as
\* error_message, and when _pipeline has returned its worker is idle again
\* and takes later jobs.
C8_Caught ==
  /\ \A t \in Tasks :
       /\ exc[t] # None => pc[t] \in { "L222", "L223" }
       /\ pc[t] = "L223" =>
            /\ tasks[t].state = "FAILED"
            /\ tasks[t].error_code = "PIPELINE_ERROR"
            /\ tasks[t].error_message = exc[t]
       /\ pc[t] = "returned" => \A w \in Workers : worker[w] # t
  /\ \A w \in Workers : worker[w] # NoTask => Running(worker[w])

C8_Witness ==
  \E t, u \in DOMAIN tasks :
    /\ t # u
    /\ pc[t] = "returned" /\ tasks[t].state = "FAILED"
    /\ worker[ran_by[t]] = u
    /\ tasks[u].state = "RUNNING"

\* C9: a run that has reached stage speech_quality never fails there: it
\* always goes on to stage assemble.
C9_NeverAborts ==
  \A t \in DOMAIN tasks :
    tasks[t].stage = "speech_quality" => tasks[t].state # "FAILED"

\* C10 as stated: when ffmpeg does not exist and the run completes, the job is
\* DONE and the report's speech_quality.available is false.
C10_Original ==
  \A t \in Tasks :
    (~ ffmpeg_installed /\ pc[t] = "L220") =>
      /\ tasks[t].state = "DONE"
      /\ report[t].speech_quality.available = FALSE

\* C10 as amended: when ffmpeg does not exist and the audio file found is not
\* a .wav file, the speech_quality stage returns available = false without
\* raising, and a run whose other stages succeed is DONE with
\* speech_quality.available false in its report.
NeedsFfmpeg(t) ==
  /\ audio_path[t] \in { AudioNames[i] : i \in 1..Len(AudioNames) }
  /\ Suffix(audio_path[t]) # ".wav"

C10_NoFfmpeg ==
  \A t \in Tasks :
    (~ ffmpeg_installed /\ NeedsFfmpeg(t) /\ "compute_speech_quality" \in calls[t]) =>
      /\ speech_quality[t].available = FALSE
      /\ pc[t] \in { "L222", "L223" } => "assemble" \in { stages[t][i] : i \in 1..Len(stages[t]) }
      /\ pc[t] = "L220" =>
           /\ tasks[t].state = "DONE"
           /\ report[t].speech_quality.available = FALSE

C10_Witness ==
  \E t \in Tasks :
    /\ ~ ffmpeg_installed /\ NeedsFfmpeg(t)
    /\ pc[t] = "L220"
    /\ tasks[t].state = "DONE"
    /\ report[t].speech_quality.available = FALSE

\* C11: the script sub-steps are non-fatal: a run that found a script document
\* and called parse_word_script does not end FAILED in stage judge.
C11_ScriptNonFatal ==
  \A t \in DOMAIN tasks :
    ("parse_word_script" \in calls[t] /\ tasks[t].stage = "judge") =>
      tasks[t].state # "FAILED"

\* C12: a run ends FAILED only because of a mandatory step (file discovery,
\* deck parsing, transcription): no run is FAILED in stage judge with the
\* slide judge as the last collaborator it called.
C12_OnlyMandatory ==
  \A t \in DOMAIN tasks :
    (tasks[t].state = "FAILED" /\ pc[t] = "L223") =>
      ~ /\ tasks[t].stage = "judge"
        /\ "judge_slides_batched" \in calls[t]
        /\ "generate_feedback_and_questions" \notin calls[t]

\* C13: a failure of the slide rendering is swallowed in stage parse: the step
\* at line 109 always goes on to line 114 (the update to stage asr) and leaves
\* the job's fields alone, a raise leaves image_paths empty, and the slide
\* judge is then called with image_map None.
C13_RenderSwallowed ==
  /\ [] \A t \in Tasks :
          ("render_pptx_to_images" \in calls[t] /\ image_paths[t] = << >>) =>
            /\ image_map[t] \in { NoImageMap, [ is_none |-> TRUE ] }
            /\ "judge_slides_batched" \in calls[t] => image_map[t] = [ is_none |-> TRUE ]
  /\ [][ \A t \in Tasks :
           pc[t] = "L109" /\ pc'[t] # "L109" =>
             /\ pc'[t] = "L114"
             /\ exc'[t] = exc[t]
             /\ tasks' = tasks
             /\ tasks[t].stage = "parse" /\ tasks[t].state = "RUNNING" ]_vars

C13_Witness ==
  \E t \in Tasks :
    /\ "render_pptx_to_images" \in calls[t] /\ image_paths[t] = << >>
    /\ "judge_slides_batched" \in calls[t] /\ image_map[t] = [ is_none |-> TRUE ]
    /\ "asr" \in { stages[t][i] : i \in 1..Len(stages[t]) }
    /\ tasks[t].state = "DONE"

\* C20: status.json mirrors the job: when a run has ended, has written
\* status.json (no write of it fails here) and no other job used its session,
\* the state recorded in the session's status.json is the job's state in the
\* registry.
C20_Mirror ==
  \A t \in DOMAIN tasks :
    (Ended(t) /\ status_json[sess[t]] # NoFile
              /\ \A u \in Tasks \ {t} : sess[u] # sess[t]) =>
      status_json[sess[t]][1].state = tasks[t].state

\* C14: when the reply for every batch is malformed (a text that is not JSON,
\* JSON that is not an object, an object whose per_slide is missing, null or
\* not a list of objects), judge_slides_batched returns normally, with no
\* result.
Malformed(reply) ==
  \/ reply.kind \in { "text", "array" }
  \/ /\ reply.kind = "object"
     /\ \/ reply.per_slide.kind \in { "missing", "null", "number", "str" }
        \/ /\ reply.per_slide.kind = "list"
           /\ \E i \in 1..Len(reply.per_slide.items) :
                reply.per_slide.items[i].kind # "object"

C14_MalformedTolerated ==
  (/\ call.fn = "judge_slides_batched"
   /\ \A b \in 1..Len(call.replies) : Malformed(call.replies[b])) =>
    /\ ~ result.raised
    /\ result.results = << >>

\* The slides of a call have integer indices that differ from each other
DistinctIndices(slides) ==
  /\ \A i \in 1..Len(slides) : slides[i].index.kind = "int"
  /\ \A i, j \in 1..Len(slides) : i # j => slides[i].index.val # slides[j].index.val

\* The windows of the slides, concatenated in the order of data.json
RECURSIVE Windows(_, _, _)
Windows(chunks, slides, n) ==
  IF n = 0 THEN << >>
  ELSE Windows(chunks, slides, n - 1)
         \o (IF slides[n].index.val \in DOMAIN chunks
               THEN chunks[slides[n].index.val] ELSE << >>)

\* C15 as stated: for every transcript and every list of slides with distinct
\* indices, the windows returned by slice_transcript_by_datajson, concatenated
\* in slide order, are the transcript's words (so their word counts sum to W).
C15_Original ==
  (/\ call.fn = "slice_transcript_by_datajson"
   /\ DistinctIndices(call.data_json.slides)) =>
    /\ Windows(result.chunks, call.data_json.slides, Len(call.data_json.slides))
         = call.full_text
    /\ SumValues([ i \in DOMAIN result.chunks |-> Len(result.chunks[i]) ],
                 DOMAIN result.chunks) = Len(call.full_text)

\* C15 as amended: the same for every list of slides that is not empty; the
\* windows are those of the slides and of nothing else.
C15_NoWordLost ==
  (/\ call.fn = "slice_transcript_by_datajson"
   /\ DistinctIndices(call.data_json.slides)
   /\ call.data_json.slides # << >>) =>
    /\ Windows(result.chunks, call.data_json.slides, Len(call.data_json.slides))
         = call.full_text
    /\ SumValues([ i \in DOMAIN result.chunks |-> Len(result.chunks[i]) ],
                 DOMAIN result.chunks) = Len(call.full_text)
    /\ DOMAIN result.chunks
         = { call.data_json.slides[i].index.val : i \in 1..Len(call.data_json.slides) }

C15_Witness ==
  /\ call.fn = "slice_transcript_by_datajson"
  /\ DistinctIndices(call.data_json.slides)
  /\ Len(call.data_json.slides) = 3
  /\ Len(call.full_text) = 4
  /\ DurationOf(call.data_json.slides[1]) > 0
  /\ DurationOf(call.data_json.slides[3]) = -1
  /\ call.data_json.slides[1].index.val = 2
  /\ Len(result.chunks[2]) = 1
  /\ Windows(result.chunks, call.data_json.slides, 3) = << 1, 2, 3, 4 >>

\* Every slide of the call has a valid duration / none has
AllValid(slides) == \A i \in 1..Len(slides) : DurationOf(slides[i]) > 0
NoneValid(slides) == \A i \in 1..Len(slides) : DurationOf(slides[i]) = -1

\* Number of words in the window of the i-th slide of the call
WindowLen(i) == Len(result.chunks[call.data_json.slides[i].index.val])

RECURSIVE WindowLens(_)
WindowLens(n) == IF n = 0 THEN 0 ELSE WindowLens(n - 1) + WindowLen(n)

\* C16: when every slide has a valid duration d_i, with total D > 0, each
\* slide but the last receives W * d_i / D words rounded to the nearest
\* integer, never more than the words still unallocated, and the last slide
\* receives all the remaining words; slides of 10 s and 30 s with a 4-word
\* transcript receive 1 and 3 words.
C16_Proportional ==
  (/\ call.fn = "slice_transcript_by_datajson"
   /\ DistinctIndices(call.data_json.slides)
   /\ call.data_json.slides # << >>
   /\ AllValid(call.data_json.slides)) =>
    LET slides == call.data_json.slides
        n == Len(slides)
        W == Len(call.full_text)
        D == TotalDuration(Durations(slides, n), n)
    IN /\ D > 0
       /\ \A i \in 1..(n - 1) :
            \E v \in 0..(W + 1) :
              /\ 2 * v * D - 2 * W * DurationOf(slides[i]) \in (0 - D)..D
              /\ WindowLen(i) = Min(W - WindowLens(i - 1), v)
       /\ WindowLen(n) = W - WindowLens(n - 1)
       /\ (/\ n = 2 /\ W = 4
           /\ DurationOf(slides[1]) = 10000
           /\ DurationOf(slides[2]) = 30000) =>
            WindowLen(1) = 1 /\ WindowLen(2) = 3

C16_Witness ==
  /\ call.fn = "slice_transcript_by_datajson"
  /\ DistinctIndices(call.data_json.slides)
  /\ Len(call.data_json.slides) = 2
  /\ Len(call.full_text) = 4
  /\ DurationOf(call.data_json.slides[1]) = 10000
  /\ DurationOf(call.data_json.slides[2]) = 30000
  /\ WindowLen(1) = 1 /\ WindowLen(2) = 3

\* C17: when no slide has a valid duration, a transcript of W > 0 words is
\* split evenly over the n slides: each receives W div n words and the first
\* W mod n slides, in the order of data.json, one word more.
C17_EvenSplit ==
  (/\ call.fn = "slice_transcript_by_datajson"
   /\ DistinctIndices(call.data_json.slides)
   /\ call.data_json.slides # << >>
   /\ NoneValid(call.data_json.slides)
   /\ Len(call.full_text) > 0) =>
    LET n == Len(call.data_json.slides)
        W == Len(call.full_text)
    IN \A i \in 1..n :
         WindowLen(i) = (W \div n) + (IF i <= W % n THEN 1 ELSE 0)

C17_Witness ==
  /\ call.fn = "slice_transcript_by_datajson"
  /\ DistinctIndices(call.data_json.slides)
  /\ NoneValid(call.data_json.slides)
  /\ Len(call.data_json.slides) = 3
  /\ Len(call.full_text) = 4
  /\ call.data_json.slides[1].start_ms.kind = "null"
  /\ call.data_json.slides[2].start_ms.kind = "str"
  /\ call.data_json.slides[3].start_ms = call.data_json.slides[3].end_ms
  /\ WindowLen(1) = 2 /\ WindowLen(2) = 1 /\ WindowLen(3) = 1

\* Sum of the similarities of the call's results, in tenths, one without a
\* number counting as 0
RECURSIVE SimilaritySum(_, _)
SimilaritySum(results, n) ==
  IF n = 0 THEN 0
  ELSE SimilaritySum(results, n - 1)
         + (IF results[n].similarity_0_1.kind = "num"
              THEN results[n].similarity_0_1.val ELSE 0)

\* C18 as stated: overall_score (here in tenths) is exactly 100 times the mean
\* of the similarities (here in tenths) of the per-slide results, and 0 for no
\* result.
C18_Original ==
  (/\ call.fn = "scores"
   /\ ~ result.weak_slides.raised
   /\ \A i \in 1..Len(call.per_slide_results) :
        call.per_slide_results[i].similarity_0_1.kind = "num") =>
    LET n == Len(call.per_slide_results)
    IN IF n = 0 THEN result.overall_score = 0
       ELSE result.overall_score * n = 100 * SimilaritySum(call.per_slide_results, n)

\* C18 as amended: overall_score is 100 times the mean of the similarities
\* rounded to one decimal place (a result without similarity counting as 0),
\* it is 0 for no result, and it depends on the per-slide results only.
C18_OverallScore ==
  (call.fn = "scores" /\ ~ result.weak_slides.raised) =>
    LET n == Len(call.per_slide_results)
        d == result.overall_score * n - 100 * SimilaritySum(call.per_slide_results, n)
    IN /\ n = 0 => result.overall_score = 0
       /\ n > 0 => 2 * d \in (0 - n)..n
       /\ result.overall_score = overall_score(call.per_slide_results, TRUE)
       /\ result.overall_score = overall_score(call.per_slide_results, FALSE)
       /\ result.overall_score \in 0..1000

C18_Witness ==
  /\ call.fn = "scores"
  /\ ~ result.weak_slides.raised
  /\ Len(call.per_slide_results) = 3
  /\ call.per_slide_results[1].similarity_0_1 = [ kind |-> "num", val |-> 5 ]
  /\ call.per_slide_results[2].similarity_0_1 = [ kind |-> "num", val |-> 5 ]
  /\ call.per_slide_results[3].similarity_0_1 = [ kind |-> "missing" ]
  /\ call.deck_metrics.small_fonts = << 2 >>
  /\ result.overall_score = 333

\* C19: the weak slides passed to the feedback generation are exactly the
\* slides flagged for text density, those flagged for small fonts and those
\* whose result has a similarity strictly below 0.5, in ascending order; a
\* slide with similarity exactly 0.5 is not weak by similarity.
C19_WeakSlides ==
  (call.fn = "scores" /\ ~ result.weak_slides.raised) =>
    LET weak == result.weak_slides.value
        results == call.per_slide_results
        flagged == ToSet(call.deck_metrics.text_density.bad_on)
                     \cup ToSet(call.deck_metrics.small_fonts)
    IN /\ ToSet(weak) =
            flagged \cup { results[i].index :
                             i \in { j \in 1..Len(results) :
                                       /\ results[j].similarity_0_1.kind = "num"
                                       /\ results[j].similarity_0_1.val < 5 } }
       /\ \A i, j \in 1..Len(weak) : i < j => weak[i] < weak[j]
       /\ \A i \in 1..Len(results) :
            (/\ results[i].similarity_0_1 = [ kind |-> "num", val |-> 5 ]
             /\ results[i].index \notin flagged) => results[i].index \notin ToSet(weak)

C19_Witness ==
  /\ call.fn = "scores"
  /\ ~ result.weak_slides.raised
  /\ call.deck_metrics.text_density.bad_on = << 2, 1 >>
  /\ call.deck_metrics.small_fonts = << 2 >>
  /\ Len(call.per_slide_results) = 3
  /\ call.per_slide_results[1].similarity_0_1 = [ kind |-> "num", val |-> 10 ]
  /\ call.per_slide_results[3].similarity_0_1 = [ kind |-> "num", val |-> 3 ]
  /\ result.weak_slides.value = << 1, 2, 3 >>

\* C21: error_code and error_message of a job are None unless its state is
\* FAILED, and they change only in the update of line 222, which sets the
\* state to FAILED first.
C21_ErrorFields ==
  /\ [] \A t \in DOMAIN tasks :
          (tasks[t].error_code # None \/ tasks[t].error_message # None) =>
            tasks[t].state = "FAILED"
  /\ [][ \A t \in DOMAIN tasks :
           (\/ tasks'[t].error_code # tasks[t].error_code
            \/ tasks'[t].error_message # tasks[t].error_message) =>
             /\ pc[t] = "L222"
             /\ tasks[t].state = "FAILED" ]_vars

C21_Witness ==
  \E t, u \in DOMAIN tasks :
    /\ tasks[t].state = "FAILED" /\ pc[t] = "returned"
    /\ tasks[t].error_code = "PIPELINE_ERROR"
    /\ tasks[t].error_message = "Presentation not found"
    /\ tasks[u].state = "DONE"
    /\ tasks[u].error_code = None /\ tasks[u].error_message = None

\* C22 as stated: no step changes the session_id of a job that is in the
\* registry.
C22_Original ==
  [][ \A t \in DOMAIN tasks : tasks'[t].session_id = tasks[t].session_id ]_vars

\* C22 as amended: the session_id of a job is None from its creation by
\* start_process until the update of line 85 sets it to the session the job
\* was submitted for; once set it never changes.
C22_SetOnce ==
  /\ [] \A t \in DOMAIN tasks :
          /\ tasks[t].session_id \in { None, sess[t] }
          /\ tasks[t].state = "PENDING" => tasks[t].session_id = None
          /\ pc[t] \notin { "none", "queued", "L85" } => tasks[t].session_id = sess[t]
  /\ [][ \A t \in DOMAIN tasks :
           /\ tasks[t].session_id # None => tasks'[t].session_id = tasks[t].session_id
           /\ tasks'[t].session_id # tasks[t].session_id => pc[t] = "L85" ]_vars

C22_Witness ==
  \E t \in DOMAIN tasks :
    /\ pc[t] = "returned"
    /\ tasks[t].state = "DONE"
    /\ tasks[t].session_id = "s2"

\* C26: an update changes only fields it names, and gives each the named
\* value; a job that is not in the registry is created with the defaults
\* (PENDING, no stage, 0, no error, no session_id) before the named fields are
\* set; no step of an update changes another job of the registry.
Named(kwargs) == { kwargs[i][1] : i \in 1..Len(kwargs) }

C26_Frame ==
  [][ /\ \A t \in DOMAIN tasks :
           /\ t \in DOMAIN tasks'
           /\ tasks'[t] # tasks[t] =>
                /\ pc[t] \in SetSites
                /\ \A u \in DOMAIN tasks : u # t => tasks'[u] = tasks[u]
                /\ DOMAIN tasks' = DOMAIN tasks
                /\ \A f \in DOMAIN tasks[t] :
                     tasks'[t][f] # tasks[t][f] => f \in Named(KwargsAt(pc[t], t))
           /\ (pc[t] \in SetSites /\ pc'[t] # pc[t]) =>
                \A i \in 1..Len(KwargsAt(pc[t], t)) :
                  tasks'[t][KwargsAt(pc[t], t)[i][1]] = KwargsAt(pc[t], t)[i][2]
      /\ \A t \in DOMAIN tasks' \ DOMAIN tasks :
           /\ sp[t] = "L229"
           /\ tasks'[t] = [ state |-> "PENDING", stage |-> None, progress_pct |-> 0,
                            error_code |-> None, error_message |-> None,
                            session_id |-> None ]
           /\ \A u \in DOMAIN tasks : tasks'[u] = tasks[u] ]_vars

C26_Witness ==
  \E t, u \in DOMAIN tasks :
    /\ t # u
    /\ pc[t] = "L223"
    /\ tasks[t].stage = "judge" /\ tasks[t].progress_pct = 60
    /\ tasks[t].error_message = "boom"
    /\ tasks[u].state = "PENDING" /\ tasks[u].session_id = None

\* C29: while the registry lock is free, (state, stage, progress_pct) of every
\* job is (PENDING, none, 0), (RUNNING, parse, 5), (RUNNING, asr, 30),
\* (RUNNING, judge, 60), (RUNNING, speech_quality, 92), (RUNNING, assemble, 95),
\* (DONE, assemble, 100) or FAILED with the stage and progress of the stage
\* that failed; progress_pct is 100 exactly when the state is DONE, and the
\* update to FAILED leaves stage and progress_pct as they were.
StagePairs ==
  { <<"parse", 5>>, <<"asr", 30>>, <<"judge", 60>>, <<"speech_quality", 92>>,
    <<"assemble", 95>> }

Triples ==
  { << "PENDING", None, 0 >>, << "DONE", "assemble", 100 >> }
  \cup { << st, p[1], p[2] >> : st \in { "RUNNING", "FAILED" }, p \in StagePairs }

C30_DoneAfterWrites ==
  /\ [] \A t \in DOMAIN tasks :
          tasks[t].state = "DONE" =>
            { "slides.json", "transcript.txt", "report.json", "feedback.md",
              "questions.json" } \subseteq wrote[t]
  /\ [] ((rd_pc = "L32" /\ rd_resp[1] = "DONE") => "report.json" \in wrote[rd_info])
  /\ [][ \A t \in PolledTasks :
           /\ "report.json" \in wrote'[t] \ wrote[t] =>
                { "slides.json", "transcript.txt" } \subseteq wrote[t]
           /\ "feedback.md" \in wrote'[t] \ wrote[t] => "report.json" \in wrote[t]
           /\ "questions.json" \in wrote'[t] \ wrote[t] => "feedback.md" \in wrote[t]
           /\ wrote'[t] # wrote[t] => tasks[t].state = "RUNNING" ]_vars

C30_Witness ==
  /\ rd_pc = "L32"
  /\ rd_resp[1] = "DONE"
  /\ pc[rd_info] = "L217"
  /\ "questions.json" \in wrote[rd_info]

\* C24: under fair scheduling, when every external call returns or raises,
\* every job that start_process has submitted is eventually DONE or FAILED,
\* also when both workers are busy and jobs are queued ahead of it.
C24_Terminates ==
  \A t \in PoolTasks :
    (pc[t] = "queued") ~> (Known(tasks, t) /\ tasks[t].state \in { "DONE", "FAILED" })

C24_Witness ==
  /\ \A t \in PoolTasks : pc[t] = "returned" /\ tasks[t].state \in { "DONE", "FAILED" }
  /\ tasks[1].state = "DONE"
  /\ tasks[MaxQueued].state = "FAILED"

\* C23: at most max_workers jobs are RUNNING; a job becomes RUNNING only
\* while fewer than max_workers jobs are RUNNING, so a job submitted while
\* two are running stays PENDING until one of them is DONE or FAILED; a job's
\* run is started once, by one worker thread, which alone executes it, one
\* step after the other.
RunningJobs == { t \in DOMAIN tasks : tasks[t].state = "RUNNING" }

C23_Pool ==
  /\ [] (Cardinality(RunningJobs) <= max_workers)
  /\ [] \A t \in PoolTasks :
          /\ Running(t) =>
               /\ ran_by[t] \in Workers
               /\ \A w \in Workers : worker[w] = t <=> w = ran_by[t]
          /\ (Known(tasks, t) /\ tasks[t].state = "RUNNING") => Running(t)
          /\ pc[t] \in { "none", "queued" } => ran_by[t] = NoTask
  /\ [][ \A t \in PoolTasks :
           /\ (Known(tasks, t) /\ tasks[t].state = "PENDING"
                 /\ tasks'[t].state = "RUNNING") =>
                Cardinality(RunningJobs) < max_workers
           /\ ran_by[t] # NoTask => ran_by'[t] = ran_by[t]
           /\ pc[t] = "returned" => pc'[t] = "returned"
           /\ (pc[t] = "queued" /\ pc'[t] # "queued") => pc'[t] = "L85" ]_vars

C23_Witness ==
  /\ Cardinality(RunningJobs) = max_workers
  /\ \E t \in PoolTasks :
       /\ sp[t] = "returned"
       /\ pc[t] = "queued"
       /\ tasks[t].state = "PENDING"
  /\ \E t \in PoolTasks : pc[t] = "L213"

\* C25: a second submission of a session is registered as a job of its own;
\* every write of a run replaces what the file of the session's folder held,
\* whichever run wrote it before, and nothing but a write changes a file, so
\* each file holds the output of the run that wrote it last.
C25_LastWriter ==
  /\ [] \A t \in Tasks :
          sp[t] \in { "L230", "L231", "returned" } =>
            /\ Known(tasks, t)
            /\ sess[t] = "s1"
  /\ [][ /\ \A t \in Tasks : \A n \in wrote'[t] \ wrote[t] :
              files'[sess[t]][n] = << t >>
         /\ \A n \in FileNames :
              files'["s1"][n] # files["s1"][n] =>
                \E t \in Tasks : n \in wrote'[t] \ wrote[t]
         /\ \A t \in Tasks :
              (pc[t] \in StatusSites \cup { "L88" } /\ pc'[t] # pc[t]) =>
                status_json'[sess[t]] = << tasks[t] >> ]_vars

C25_Witness ==
  /\ \A t \in Tasks :
       /\ pc[t] = "returned"
       /\ sess[t] = "s1"
       /\ tasks[t].state = "DONE"
  /\ files["s1"]["slides.json"] = << 2 >>
  /\ files["s1"]["report.json"] = << 1 >>
  /\ files["s1"]["questions.json"] = << 2 >>
  /\ status_json["s1"][1].state = "DONE"

\* C27: once a run has failed it calls no collaborator, enters no stage and
\* writes no file (no artifact, no status.json); the files it wrote before
\* stay as they are; it only makes the update to FAILED and returns.
Failed(t) == exc[t] # None \/ (Known(tasks, t) /\ tasks[t].state = "FAILED")

C27_NothingAfterFailure ==
  [][ \A t \in PolledTasks :
        Failed(t) =>
          /\ wrote'[t] = wrote[t]
          /\ files'[sess[t]] = files[sess[t]]
          /\ status_json'[sess[t]] = status_json[sess[t]]
          /\ stages'[t] = stages[t]
          /\ calls'[t] \subseteq calls[t]
          /\ pc'[t] \in { "L222", "L223", "returned" } ]_vars

C27_Witness ==
  \E t \in PolledTasks :
    /\ pc[t] = "returned"
    /\ tasks[t].state = "FAILED"
    /\ tasks[t].stage = "assemble"
    /\ wrote[t] = { "slides.json", "slide-001.png", "transcript.txt", "report.json" }
    /\ files[sess[t]]["report.json"] = << t >>
    /\ files[sess[t]]["feedback.md"] = NoFile
    /\ status_json[sess[t]] # NoFile

\* C28: a run whose external call does not return keeps its worker thread and
\* stays RUNNING; once the runs on all worker threads are in such calls, the
\* threads stay taken, and every job that is PENDING, or is submitted later,
\* stays PENDING and is never started.
HungJobs == { t \in PoolTasks : pc[t] = "hung" }

C28_Starved ==
  /\ [] \A t \in HungJobs :
          /\ worker[ran_by[t]] = t
          /\ tasks[t].state = "RUNNING"
  /\ [][ \A t \in HungJobs : pc'[t] = "hung" /\ tasks'[t] = tasks[t] ]_vars
  /\ [][ Cardinality(HungJobs) = max_workers =>
           /\ worker' = worker
           /\ \A t \in DOMAIN tasks' :
                (t \notin DOMAIN tasks \/ tasks[t].state = "PENDING") =>
                  /\ tasks'[t].state = "PENDING"
                  /\ pc'[t] \in { "none", "queued" } ]_vars

C28_Witness ==
  /\ Cardinality(HungJobs) = max_workers
  /\ \E t \in PoolTasks :
       /\ sp[t] = "returned"
       /\ pc[t] = "queued"
       /\ tasks[t].state = "PENDING"

====
